---- MODULE Spec2Model ----
(***************************************************************************)
(* State-machine model of the RAG service: the /predict and /train         *)
(* endpoints (main.py), the query pipeline (routers/predict_router.py),    *)
(* the ingestion pipeline (routers/train_router.py), the retrieval service *)
(* (services/retriever.py) and the document/chat store (db/mongo_utils.py).*)
(* Every request is a run held in a slot; a run advances one outbound call *)
(* at a time.                                                              *)
(***************************************************************************)
EXTENDS Integers, Sequences, FiniteSets, TLC

\* ------------------------------------------------------------------ bounds
MaxTurns == 2        \* chat turns the chat collection may hold (Spec)
MaxDocs == 1         \* document records the document collection may hold (Spec)
MaxPoints == 4       \* point ids the vector collection may hand out
MaxClock == 1        \* largest reading of the wall clock
SeqTurns == 2        \* chat turns the chat collection may hold (SpecQuery)
SeqDocs == 1         \* document records the collection may hold (SpecTrain)
MaxHist == 5         \* chat turns of a collection that exists at start (SpecHistory)
MaxIndex == 6        \* points of an index that exists at start (SpecSession)
SessTurns == 5       \* chat turns the chat collection may hold (SpecSession)
LoopTurns == 2       \* chat turns the chat collection may hold (SpecLoop)
StoreLen == 3        \* texts of one store_chunks call (SpecStore)
ServTurns == 2       \* chat turns the chat collection may hold (SpecServer)
ServDocs == 1        \* document records the collection may hold (SpecServer)
IngestDocs == 2      \* document records the collection may hold (SpecIngest)
PairTurns == 2       \* chat turns the chat collection may hold (SpecPair)
WorkTurns == 1       \* chat turns the chat collection may hold (SpecWorkers)
WorkDocs == 1        \* document records the collection may hold (SpecWorkers)

\* ------------------------------------------------------- program constants
TopK == 5            \* k of the retrieval issued by predict_flow
HistoryLimit == 3    \* limit(3) of the chat-history query
CLIENT_SECRET_KEY == "secret"

\* ------------------------------------------------------------ input domains
Slots == {1, 2}      \* the request slots
Users == {"u1", "u2"}
Sessions == {"s1", "s2"}
IssuedSessions == {"s1"}   \* the ids /create-session hands out
Queries == {"q1", "q2"}
Responses == {"r1", "r2"}
NoHeader == "absent"
Headers == {NoHeader, CLIENT_SECRET_KEY, "wrong"}
\* an upload: file name as <<stem, extension>>, content as abstract bytes
Files == { [name |-> <<"a", "txt">>, content |-> "empty"],
           [name |-> <<"a", "txt">>, content |-> "one"],
           [name |-> <<"a", "txt">>, content |-> "two"],
           [name |-> <<"a", "txt">>, content |-> "bad"],
           [name |-> <<"b", "bin">>, content |-> "one"],
           [name |-> <<"b", "bin">>, content |-> "bad"] }
NoFile == [name |-> <<"", "">>, content |-> "empty"]

\* ------------------------------------------------------------ pure helpers
Min(a, b) == IF a < b THEN a ELSE b

RECURSIVE Reverse(_)
Reverse(s) == IF s = <<>> THEN <<>> ELSE Reverse(Tail(s)) \o <<Head(s)>>

Take(s, n) == SubSeq(s, 1, Min(n, Len(s)))

RECURSIVE Flatten(_)
Flatten(ss) == IF ss = <<>> THEN <<>> ELSE Head(ss) \o Flatten(Tail(ss))

\* all orderings of the index set S
RECURSIVE Perms(_)
Perms(S) == IF S = {} THEN { <<>> }
            ELSE UNION { { <<x>> \o p : p \in Perms(S \ {x}) } : x \in S }

\* ------------------------------------------------- db/mongo_utils.py
\* find({"session_id": s}): positions of the chat records of session s
FindSession(coll, s) == { i \in 1..Len(coll) : coll[i].session_id = s }

\* variant: the cursor sorted oldest first
SortAsc(coll, S) ==
    { p \in Perms(S) :
        \A i \in 1..Len(p) - 1 : coll[p[i]].timestamp <= coll[p[i + 1]].timestamp }

\* sort("timestamp", -1): every ordering with non-increasing timestamps; the
\* store leaves the order of equal timestamps open
SortDesc(coll, S) ==
    { p \in Perms(S) :
        \A i \in 1..Len(p) - 1 : coll[p[i]].timestamp >= coll[p[i + 1]].timestamp }

\* the two lines one chat record contributes
FormatChat(chat) == << <<"QUERY: ", chat.query>>, <<"RESPONSE: ", chat.response>> >>

\* the formatted history for one ordering the cursor may deliver
FormatHistory(coll, p) ==
    LET window == Reverse(Take(p, HistoryLimit))
    IN  Flatten([i \in 1..Len(window) |-> FormatChat(coll[window[i]])])

\* get_chat_history(session_id): the results the call may return
get_chat_history(coll, s) ==
    { FormatHistory(coll, p) : p \in SortDesc(coll, FindSession(coll, s)) }

\* save_chat_session: the record built before insert_one
ChatDoc(u, s, q, resp, ts) ==
    [user_id |-> u, session_id |-> s, query |-> q, response |-> resp, timestamp |-> ts]

\* save_uploaded_document: the record built before insert_one
UploadDoc(u, fname, text, ts) ==
    [user_id |-> u, filename |-> fname, file_content |-> text, upload_time |-> ts]

\* ------------------------------------------------- services/llm_client.py
\* the completion bodies the generation service may answer with, its texts
\* drawn from R
LlmBodies(R) == { [choices |-> << c >>, model |-> "m"] : c \in R }
                    \cup { [choices |-> <<>>, model |-> "m"] }

\* get_response: KeyError/IndexError becomes RAGError
ResponseOk(json) == Len(json.choices) > 0
get_response(json) == [response |-> json.choices[1], model |-> json.model]

\* ------------------------------------------------- main.py
\* variant: a request without the header passes the dependency
AuthStatusLax(hdr) ==
    IF hdr # NoHeader /\ hdr # CLIENT_SECRET_KEY THEN 401 ELSE 0

\* verify_client_secret with Header(...): 0 means the dependency passed
AuthStatus(hdr) ==
    IF hdr = NoHeader THEN 422
    ELSE IF hdr # CLIENT_SECRET_KEY THEN 401
    ELSE 0

\* ------------------------------------------------- routers/train_router.py
\* variant: every file that is not valid UTF-8 is decoded as latin-1
extract_text_any_encoding(content, name) ==
    IF content = "bad" THEN [ok |-> TRUE, text |-> "mojibake"]
    ELSE [ok |-> TRUE, text |-> IF content = "empty" THEN "" ELSE content]

\* extract_text_from_file: ok = FALSE when the function raises
extract_text_from_file(content, name) ==
    LET file_extension == name[2]
        utf8 == IF content = "bad" THEN [ok |-> FALSE, text |-> ""]
                ELSE [ok |-> TRUE, text |-> IF content = "empty" THEN "" ELSE content]
    IN  IF file_extension = "pdf"
        THEN utf8                                   \* extract_text_from_pdf
        ELSE IF file_extension \in {"txt", "md", "json", "csv"}
        THEN IF utf8.ok THEN utf8 ELSE [ok |-> TRUE, text |-> "mojibake"]   \* latin-1
        ELSE utf8

\* f"{user_id}_{file.filename}"
GeneratedName(u, name) == <<u, "_", name>>

\* ------------------------------------------------- components
\* variant: the splitter keeps an empty piece for an empty text
chunk_text_keep_empty(text) ==
    IF text = "" THEN <<"">>
    ELSE IF text = "one" THEN <<"c1">>
    ELSE IF text = "two" THEN <<"c1", "c2">>
    ELSE <<"cm">>

\* Chunker.chunk_text: the pieces the splitter cuts a text into
chunk_text(text) ==
    IF text = "" THEN <<>>
    ELSE IF text = "one" THEN <<"c1">>
    ELSE IF text = "two" THEN <<"c1", "c2">>
    ELSE <<"cm">>

\* MetadataHandler.get_metadata_list
get_metadata_list(texts, source, u) ==
    [i \in 1..Len(texts) |-> [source |-> source, user_id |-> u]]

\* ------------------------------------------------- services
\* the vector the embedding service answers for a text
Embed(t) ==
    IF t \in {"c1", "q1"} THEN 1
    ELSE IF t \in {"c2", "q2"} THEN 2
    ELSE 3

\* variant: one request to the embedding service per text
EmbedCallsPerText(texts) == Len(texts)

\* embed_texts: the requests one call makes; an empty list returns [] at once
EmbedCalls(texts) == IF texts = <<>> THEN 0 ELSE 1

\* embed_texts: the answers of the service for a batch; the service decides
\* how many items its "data" array has
EmbedAnswers(texts) ==
    IF texts = <<>> THEN { <<>> }
    ELSE { [i \in 1..n |-> IF i <= Len(texts) THEN Embed(texts[i]) ELSE 0] :
             n \in 0..Len(texts) + 1 }

\* {**base_payload, **extra}
MergePayload(base, extra) ==
    [k \in DOMAIN base \cup DOMAIN extra |->
        IF k \in DOMAIN extra THEN extra[k] ELSE base[k]]

\* variant: metadatas[i] is read without the length test
BuildPointsStrict(texts, metadatas, embeddings, firstId) ==
    IF Len(embeddings) > Len(texts) \/ Len(embeddings) > Len(metadatas)
    THEN [ok |-> FALSE, points |-> <<>>]
    ELSE [ok |-> TRUE,
          points |-> [i \in 1..Len(embeddings) |->
              [id |-> firstId + i,
               vector |-> embeddings[i],
               payload |-> MergePayload([text |-> texts[i]], metadatas[i])]]]

\* the loop of store_chunks over enumerate(embeddings); ok = FALSE when
\* texts[i] raises IndexError; ids firstId+1.. stand for fresh uuid4 values
BuildPoints(texts, metadatas, embeddings, firstId) ==
    IF Len(embeddings) > Len(texts)
    THEN [ok |-> FALSE, points |-> <<>>]
    ELSE [ok |-> TRUE,
          points |-> [i \in 1..Len(embeddings) |->
              [id |-> firstId + i,
               vector |-> embeddings[i],
               payload |-> MergePayload([text |-> texts[i]],
                              IF i <= Len(metadatas) THEN metadatas[i] ELSE <<>>)]]]

\* cosine score of the backend, on the abstract vectors
Score(v, w) == IF v = w THEN 2 ELSE IF v - w \in {1, -1} THEN 1 ELSE 0

\* variant: the first k points in stored order, whatever their score
SearchUnranked(pts, qv, k) == SubSeq(pts, 1, Min(k, Len(pts)))

\* qdrant.search(limit = k): best score first, equal scores in stored order
RECURSIVE Search(_, _, _)
Search(pts, qv, k) ==
    IF k = 0 \/ pts = <<>> THEN <<>>
    ELSE LET best == CHOOSE i \in 1..Len(pts) :
                        \A j \in 1..Len(pts) :
                            \/ Score(pts[i].vector, qv) > Score(pts[j].vector, qv)
                            \/ Score(pts[i].vector, qv) = Score(pts[j].vector, qv) /\ i <= j
             rest == [j \in 1..Len(pts) - 1 |-> IF j < best THEN pts[j] ELSE pts[j + 1]]
         IN  <<pts[best]>> \o Search(rest, qv, k - 1)

\* [hit.payload.get("text", "") for hit in search_results]
ResultTexts(hits) ==
    [i \in 1..Len(hits) |->
        IF "text" \in DOMAIN hits[i].payload THEN hits[i].payload.text ELSE ""]

\* ------------------------------------------------- statement order
\* variant: the result is returned without the chat turn being saved
PredictNextSkipSave(pc) ==
    CASE pc = "retrieve" -> "search"
      [] pc = "search"   -> "history"
      [] pc = "history"  -> "prompt"
      [] pc = "prompt"   -> "generate"
      [] pc = "generate" -> "extract"
      [] pc = "extract"  -> "respond"
      [] OTHER           -> "done"

\* variant: the history is read between the query embedding and the search
PredictNextHistoryFirst(pc) ==
    CASE pc = "retrieve" -> "history"
      [] pc = "history"  -> "search"
      [] pc = "search"   -> "prompt"
      [] pc = "prompt"   -> "generate"
      [] pc = "generate" -> "extract"
      [] pc = "extract"  -> "persist"
      [] pc = "persist"  -> "insert"
      [] pc = "insert"   -> "respond"
      [] OTHER           -> "done"

\* the order of the steps of PredictRouter.predict_flow
PredictNext(pc) ==
    CASE pc = "retrieve" -> "search"
      [] pc = "search"   -> "history"
      [] pc = "history"  -> "prompt"
      [] pc = "prompt"   -> "generate"
      [] pc = "generate" -> "extract"
      [] pc = "extract"  -> "persist"
      [] pc = "persist"  -> "insert"
      [] pc = "insert"   -> "respond"
      [] OTHER           -> "done"

\* variant: the document is chunked before the raw document is persisted
TrainNextChunkFirst(pc) ==
    CASE pc = "read"     -> "extract"
      [] pc = "extract"  -> "chunk"
      [] pc = "chunk"    -> "savedoc"
      [] pc = "savedoc"  -> "embed"
      [] pc = "embed"    -> "upsert"
      [] pc = "upsert"   -> "info"
      [] pc = "info"     -> "respond"
      [] OTHER           -> "done"

\* the order of the steps of TrainRouter.train
TrainNext(pc) ==
    CASE pc = "read"     -> "extract"
      [] pc = "extract"  -> "savedoc"
      [] pc = "savedoc"  -> "chunk"
      [] pc = "chunk"    -> "embed"
      [] pc = "embed"    -> "upsert"
      [] pc = "upsert"   -> "info"
      [] pc = "info"     -> "respond"
      [] OTHER           -> "done"

\* ------------------------------------------------------------------ state
VARIABLES
    chats,        \* chat_sessions collection, in insertion order
    docs,         \* uploaded_documents collection, in insertion order
    points,       \* points of the vector collection, in stored order
    collExists,   \* the vector collection exists
    collCreated,  \* how many times create_collection succeeded
    now,          \* wall clock
    nextId,       \* point ids handed out so far
    slot          \* the request runs

vars == <<chats, docs, points, collExists, collCreated, now, nextId, slot>>

CallKinds == {"embed", "llm", "vread", "vwrite", "dread", "dwrite"}
NoCalls == [k \in CallKinds |-> 0]
Bump(calls, k) == [calls EXCEPT ![k] = @ + 1]
NoBody == [shape |-> "none"]

IdleSlot ==
    [kind |-> "none", pc |-> "idle", hdr |-> NoHeader,
     user_id |-> "", session_id |-> "", query |-> "", file |-> NoFile,
     qvec |-> 0, context |-> <<>>, history |-> <<>>, json |-> [choices |-> <<>>, model |-> ""],
     response |-> "", doc |-> <<>>,
     text |-> "", chunks |-> <<>>, metadata |-> <<>>, newpoints |-> <<>>,
     status |-> 0, body |-> NoBody, err |-> "",
     trace |-> <<>>, calls |-> NoCalls,
     written |-> <<>>, saved |-> <<>>, inserted |-> <<>>]

Init ==
    /\ chats = <<>>
    /\ docs = <<>>
    /\ points = <<>>
    /\ collExists = FALSE
    /\ collCreated = 0
    /\ now = 0
    /\ nextId = 0
    /\ slot = [r \in Slots |-> IdleSlot]

InFlight(kind) == { r \in Slots : slot[r].kind = kind /\ slot[r].status = 0 }

\* ------------------------------------------------------------ responses
Step(s) == [s EXCEPT !.trace = Append(@, s.pc)]

\* raise HTTPException(status_code, detail)
HttpError(s, code, detail) ==
    [s EXCEPT !.pc = "done", !.status = code,
              !.body = [shape |-> "error", detail |-> detail]]

\* variant: the exception of a step is logged and the flow goes on
PredictFailSwallow(s, e) == [s EXCEPT !.err = e, !.pc = PredictNext(s.pc)]

\* variant: a failed save is ignored and the answer is returned
PredictFailIgnoreSave(s, e) ==
    IF s.pc = "insert"
    THEN [s EXCEPT !.pc = "respond"]
    ELSE [HttpError(s, 500, <<"Prediction failed: ", <<"Error in predict_flow: ", e>> >>)
             EXCEPT !.err = e]

\* variant: the failure is returned as a result with a success status
PredictFailAsData(s, e) ==
    [s EXCEPT !.pc = "done", !.status = 200, !.err = e,
              !.body = [shape |-> "error", detail |-> e]]

\* variant: the client is told only that the prediction failed
PredictFailGeneric(s, e) ==
    [HttpError(s, 500, <<"Prediction failed: ", <<"Error in predict_flow: ", "">> >>)
        EXCEPT !.err = e]

\* variant: the failed step is issued again
PredictFailRetry(s, e) == [s EXCEPT !.err = e]

\* predict_flow's except clause, then the except clause of main.predict
PredictFail(s, e) ==
    [HttpError(s, 500, <<"Prediction failed: ", <<"Error in predict_flow: ", e>> >>)
        EXCEPT !.err = e]

\* variant: train re-raises, main.train answers 500
TrainFailRaise(s, e) ==
    [HttpError(s, 500, <<"Training failed: ", e>>) EXCEPT !.err = e]

\* the except clause of TrainRouter.train, returned by main.train
TrainFail(s, e) ==
    [s EXCEPT !.pc = "done", !.status = 200, !.err = e,
              !.body = [shape |-> "train", error |-> "Processing Error", message |-> e,
                        user_id |-> s.user_id, filename |-> s.file.name,
                        status |-> "failed"]]

Set(r, s) == slot' = [slot EXCEPT ![r] = s]

\* ------------------------------------------------------------ main.py
\* POST /predict: the dependency verify_client_secret runs before the body
PredictRequest(r, hdr, u, sid, q, cap) ==
    /\ slot[r].pc = "idle"
    /\ LET s == [IdleSlot EXCEPT !.kind = "predict", !.hdr = hdr, !.user_id = u,
                                 !.session_id = sid, !.query = q]
       IN  IF AuthStatus(hdr) # 0
           THEN Set(r, HttpError(s, AuthStatus(hdr), "rejected"))
           ELSE /\ Len(chats) + Cardinality(InFlight("predict")) < cap
                /\ Set(r, [s EXCEPT !.pc = "check"])
    /\ UNCHANGED <<chats, docs, points, collExists, collCreated, now, nextId>>

\* POST /train: the dependency verify_client_secret runs before the body
TrainRequest(r, hdr, u, f, cap) ==
    /\ slot[r].pc = "idle"
    /\ LET s == [IdleSlot EXCEPT !.kind = "train", !.hdr = hdr, !.user_id = u, !.file = f]
       IN  IF AuthStatus(hdr) # 0
           THEN Set(r, HttpError(s, AuthStatus(hdr), "rejected"))
           ELSE /\ Len(docs) + Cardinality(InFlight("train")) < cap
                /\ nextId + 2 * (Cardinality(InFlight("train")) + 1) <= MaxPoints
                /\ Set(r, [s EXCEPT !.pc = "check"])
    /\ UNCHANGED <<chats, docs, points, collExists, collCreated, now, nextId>>

\* variant: the issued session is recorded in the document store
CreateSessionStored(r, hdr, u, sid) ==
    /\ slot[r].pc = "idle"
    /\ LET s == [IdleSlot EXCEPT !.kind = "session", !.hdr = hdr, !.user_id = u,
                                 !.session_id = sid]
       IN  IF AuthStatus(hdr) # 0
           THEN /\ Set(r, HttpError(s, AuthStatus(hdr), "rejected"))
                /\ UNCHANGED docs
           ELSE /\ Set(r, [s EXCEPT !.pc = "done", !.status = 200,
                                    !.body = [shape |-> "session", session_id |-> sid,
                                              user_id |-> u, status |-> "active"]])
                /\ docs' = Append(docs, [user_id |-> u, session_id |-> sid])
    /\ UNCHANGED <<chats, points, collExists, collCreated, now, nextId>>

\* POST /create-session: a fresh uuid4 is returned, nothing is stored
CreateSession(r, hdr, u, sid) ==
    /\ slot[r].pc = "idle"
    /\ LET s == [IdleSlot EXCEPT !.kind = "session", !.hdr = hdr, !.user_id = u,
                                 !.session_id = sid]
       IN  IF AuthStatus(hdr) # 0
           THEN Set(r, HttpError(s, AuthStatus(hdr), "rejected"))
           ELSE Set(r, [s EXCEPT !.pc = "done", !.status = 200,
                                 !.body = [shape |-> "session", session_id |-> sid,
                                           user_id |-> u, status |-> "active"]])
    /\ UNCHANGED <<chats, docs, points, collExists, collCreated, now, nextId>>

FirstStage(kind) == IF kind = "predict" THEN "retrieve" ELSE "read"

\* RetrieverService.__init__: get_collections()
CheckCollection(r) ==
    /\ slot[r].pc = "check"
    /\ Set(r, [Step(slot[r]) EXCEPT
                 !.calls = Bump(@, "vread"),
                 !.pc = IF collExists THEN FirstStage(slot[r].kind) ELSE "create"])
    /\ UNCHANGED <<chats, docs, points, collExists, collCreated, now, nextId>>

\* variant: recreate_collection(), which drops an existing collection
CreateCollectionAgain(r) ==
    /\ slot[r].pc = "create"
    /\ Set(r, [Step(slot[r]) EXCEPT !.calls = Bump(@, "vwrite"),
                                    !.pc = FirstStage(slot[r].kind)])
    /\ collExists' = TRUE
    /\ collCreated' = collCreated + 1
    /\ points' = <<>>
    /\ UNCHANGED <<chats, docs, now, nextId>>

\* RetrieverService.__init__: create_collection(); an existing collection is
\* an error of the call
CreateCollection(r) ==
    /\ slot[r].pc = "create"
    /\ IF collExists
       THEN /\ Set(r, HttpError([Step(slot[r]) EXCEPT !.calls = Bump(@, "vwrite"),
                                                     !.err = "collection exists"], 500,
                        <<IF slot[r].kind = "predict" THEN "Prediction failed: "
                          ELSE "Training failed: ", "collection exists">>))
            /\ UNCHANGED <<collExists, collCreated>>
       ELSE /\ Set(r, [Step(slot[r]) EXCEPT !.calls = Bump(@, "vwrite"),
                                            !.pc = FirstStage(slot[r].kind)])
            /\ collExists' = TRUE
            /\ collCreated' = collCreated + 1
    /\ UNCHANGED <<chats, docs, points, now, nextId>>

\* a constructor call raises: the except clause of main.predict / main.train
ConstructFail(r) ==
    /\ slot[r].pc \in {"check", "create"}
    /\ Set(r, HttpError([Step(slot[r]) EXCEPT !.err = "store unavailable"], 500,
                 <<IF slot[r].kind = "predict" THEN "Prediction failed: "
                   ELSE "Training failed: ", "store unavailable">>))
    /\ UNCHANGED <<chats, docs, points, collExists, collCreated, now, nextId>>

\* ------------------------------------------------------------ predict_flow
IsPredict(r, pc) == slot[r].kind = "predict" /\ slot[r].pc = pc

\* retrieve_similar_chunks: embed_text(query)
EmbedQuery(r) ==
    /\ IsPredict(r, "retrieve")
    /\ Set(r, [Step(slot[r]) EXCEPT !.calls = Bump(@, "embed"),
                                    !.qvec = Embed(slot[r].query),
                                    !.pc = PredictNext("retrieve")])
    /\ UNCHANGED <<chats, docs, points, collExists, collCreated, now, nextId>>

\* variant: the search is filtered on the user_id of the payload
SearchIndexOwn(r) ==
    /\ IsPredict(r, "search")
    /\ LET own == SelectSeq(points, LAMBDA p : p.payload.user_id = slot[r].user_id)
       IN  Set(r, [Step(slot[r]) EXCEPT !.calls = Bump(@, "vread"),
                                        !.context = ResultTexts(Search(own, slot[r].qvec, TopK)),
                                        !.pc = PredictNext("search")])
    /\ UNCHANGED <<chats, docs, points, collExists, collCreated, now, nextId>>

\* variant: the search consumes its hits, the retrieved points leave the index
SearchIndexEvict(r) ==
    /\ IsPredict(r, "search")
    /\ Set(r, [Step(slot[r]) EXCEPT !.calls = Bump(@, "vread"),
                                    !.context = ResultTexts(Search(points, slot[r].qvec, TopK)),
                                    !.pc = PredictNext("search")])
    /\ points' = SubSeq(points, 2, Len(points))
    /\ UNCHANGED <<chats, docs, collExists, collCreated, now, nextId>>

\* retrieve_similar_chunks: qdrant.search and the payload texts
SearchIndex(r) ==
    /\ IsPredict(r, "search")
    /\ Set(r, [Step(slot[r]) EXCEPT !.calls = Bump(@, "vread"),
                                    !.context = ResultTexts(Search(points, slot[r].qvec, TopK)),
                                    !.pc = PredictNext("search")])
    /\ UNCHANGED <<chats, docs, points, collExists, collCreated, now, nextId>>

\* mongo_utils.get_chat_history(session_id)
FetchHistory(r) ==
    /\ IsPredict(r, "history")
    /\ \E h \in get_chat_history(chats, slot[r].session_id) :
          Set(r, [Step(slot[r]) EXCEPT !.calls = Bump(@, "dread"),
                                       !.history = h,
                                       !.pc = PredictNext("history")])
    /\ UNCHANGED <<chats, docs, points, collExists, collCreated, now, nextId>>

\* CONTEXT_PROMPT.format(chat_history, context, query)
AssemblePrompt(r) ==
    /\ IsPredict(r, "prompt")
    /\ Set(r, [Step(slot[r]) EXCEPT !.pc = PredictNext("prompt")])
    /\ UNCHANGED <<chats, docs, points, collExists, collCreated, now, nextId>>

\* llm_client.chat(prompt)
Generate(r, R) ==
    /\ IsPredict(r, "generate")
    /\ \E json \in LlmBodies(R) :
          Set(r, [Step(slot[r]) EXCEPT !.calls = Bump(@, "llm"),
                                       !.json = json,
                                       !.pc = PredictNext("generate")])
    /\ UNCHANGED <<chats, docs, points, collExists, collCreated, now, nextId>>

\* llm_client.get_response(json_response)[...]
ExtractResponse(r) ==
    /\ IsPredict(r, "extract")
    /\ IF ResponseOk(slot[r].json)
       THEN Set(r, [Step(slot[r]) EXCEPT !.response = get_response(slot[r].json).response,
                                         !.pc = PredictNext("extract")])
       ELSE Set(r, PredictFail(Step(slot[r]), "Invalid response format"))
    /\ UNCHANGED <<chats, docs, points, collExists, collCreated, now, nextId>>

\* save_chat_session: the record with its timestamp
BuildTurn(r) ==
    /\ IsPredict(r, "persist")
    /\ Set(r, [Step(slot[r]) EXCEPT
                 !.doc = <<ChatDoc(slot[r].user_id, slot[r].session_id, slot[r].query,
                                   slot[r].response, now)>>,
                 !.pc = PredictNext("persist")])
    /\ UNCHANGED <<chats, docs, points, collExists, collCreated, now, nextId>>

\* variant: the turn replaces the stored turn of its session (an upsert on
\* session_id) when there is one
InsertTurnReplace(r) ==
    /\ IsPredict(r, "insert")
    /\ chats' = IF FindSession(chats, slot[r].session_id) = {}
                THEN chats \o slot[r].doc
                ELSE [i \in 1..Len(chats) |->
                        IF chats[i].session_id = slot[r].session_id
                        THEN slot[r].doc[1] ELSE chats[i]]
    /\ Set(r, [Step(slot[r]) EXCEPT !.calls = Bump(@, "dwrite"),
                                    !.written = @ \o slot[r].doc,
                                    !.pc = PredictNext("insert")])
    /\ UNCHANGED <<docs, points, collExists, collCreated, now, nextId>>

\* save_chat_session: chat_collection.insert_one(doc)
InsertTurn(r) ==
    /\ IsPredict(r, "insert")
    /\ chats' = chats \o slot[r].doc
    /\ Set(r, [Step(slot[r]) EXCEPT !.calls = Bump(@, "dwrite"),
                                    !.written = @ \o slot[r].doc,
                                    !.pc = PredictNext("insert")])
    /\ UNCHANGED <<docs, points, collExists, collCreated, now, nextId>>

\* variant: chat_history_length counts turns, not lines
PredictRespondTurns(r) ==
    /\ IsPredict(r, "respond")
    /\ Set(r, [Step(slot[r]) EXCEPT
                 !.pc = "done", !.status = 200,
                 !.body = [shape |-> "predict",
                           response |-> slot[r].response,
                           model |-> get_response(slot[r].json).model,
                           chunks_retrieved |-> Len(slot[r].context),
                           chat_history_length |-> Len(slot[r].history) \div 2]])
    /\ UNCHANGED <<chats, docs, points, collExists, collCreated, now, nextId>>

\* the result dictionary, returned by main.predict
PredictRespond(r) ==
    /\ IsPredict(r, "respond")
    /\ Set(r, [Step(slot[r]) EXCEPT
                 !.pc = "done", !.status = 200,
                 !.body = [shape |-> "predict",
                           response |-> slot[r].response,
                           model |-> get_response(slot[r].json).model,
                           chunks_retrieved |-> Len(slot[r].context),
                           chat_history_length |-> Len(slot[r].history)]])
    /\ UNCHANGED <<chats, docs, points, collExists, collCreated, now, nextId>>

\* the calls of predict_flow that may raise, and what each raises
PredictErrors ==
    [retrieve |-> "Embedding failed", search |-> "search failed",
     history |-> "history read failed", prompt |-> "format failed",
     generate |-> "Network error", insert |-> "insert failed"]

PredictCall ==
    [retrieve |-> "embed", search |-> "vread", history |-> "dread",
     prompt |-> "", generate |-> "llm", insert |-> "dwrite"]

\* a step of predict_flow raises: nothing is written
PredictStageFail(r) ==
    /\ slot[r].kind = "predict"
    /\ slot[r].pc \in DOMAIN PredictErrors
    /\ Set(r, PredictFail([Step(slot[r]) EXCEPT
                 !.calls = IF PredictCall[slot[r].pc] = "" THEN @
                           ELSE Bump(@, PredictCall[slot[r].pc])],
                 PredictErrors[slot[r].pc]))
    /\ UNCHANGED <<chats, docs, points, collExists, collCreated, now, nextId>>

\* ------------------------------------------------------------ train
IsTrain(r, pc) == slot[r].kind = "train" /\ slot[r].pc = pc

\* await file.read()
ReadFile(r) ==
    /\ IsTrain(r, "read")
    /\ Set(r, [Step(slot[r]) EXCEPT !.pc = TrainNext("read")])
    /\ UNCHANGED <<chats, docs, points, collExists, collCreated, now, nextId>>

\* extract_text_from_file(file_content, file.filename)
ExtractText(r) ==
    /\ IsTrain(r, "extract")
    /\ LET x == extract_text_from_file(slot[r].file.content, slot[r].file.name)
       IN  IF x.ok
           THEN Set(r, [Step(slot[r]) EXCEPT !.text = x.text, !.pc = TrainNext("extract")])
           ELSE Set(r, TrainFail(Step(slot[r]), "Unsupported file type or encoding"))
    /\ UNCHANGED <<chats, docs, points, collExists, collCreated, now, nextId>>

\* variant: the record is held back and written only by a run that succeeds
SaveDocumentDeferred(r) ==
    /\ IsTrain(r, "savedoc")
    /\ LET d == UploadDoc(slot[r].user_id,
                          GeneratedName(slot[r].user_id, slot[r].file.name),
                          slot[r].text, now)
       IN  /\ docs' = docs
           /\ Set(r, [Step(slot[r]) EXCEPT !.calls = Bump(@, "dwrite"),
                                           !.saved = Append(@, d),
                                           !.pc = TrainNext("savedoc")])
    /\ UNCHANGED <<chats, points, collExists, collCreated, now, nextId>>

\* mongo_utils.save_uploaded_document(user_id, filename, file_text)
SaveDocument(r) ==
    /\ IsTrain(r, "savedoc")
    /\ LET d == UploadDoc(slot[r].user_id,
                          GeneratedName(slot[r].user_id, slot[r].file.name),
                          slot[r].text, now)
       IN  /\ docs' = Append(docs, d)
           /\ Set(r, [Step(slot[r]) EXCEPT !.calls = Bump(@, "dwrite"),
                                           !.saved = Append(@, d),
                                           !.pc = TrainNext("savedoc")])
    /\ UNCHANGED <<chats, points, collExists, collCreated, now, nextId>>

\* chunker.chunk_text, the zero-chunk return and get_metadata_list
ChunkDocument(r) ==
    /\ IsTrain(r, "chunk")
    /\ LET text_chunks == chunk_text(slot[r].text)
       IN  IF text_chunks = <<>>
           THEN Set(r, [TrainFail(Step(slot[r]), "No chunks generated from document")
                          EXCEPT !.err = ""])
           ELSE Set(r, [Step(slot[r]) EXCEPT
                          !.chunks = text_chunks,
                          !.metadata = get_metadata_list(text_chunks,
                                          GeneratedName(slot[r].user_id, slot[r].file.name),
                                          slot[r].user_id),
                          !.pc = TrainNext("chunk")])
    /\ UNCHANGED <<chats, docs, points, collExists, collCreated, now, nextId>>

\* store_chunks: embed_texts(texts) and the loop that builds the points
EmbedChunks(r) ==
    /\ IsTrain(r, "embed")
    /\ \E embeddings \in EmbedAnswers(slot[r].chunks) :
          LET b == BuildPoints(slot[r].chunks, slot[r].metadata, embeddings, nextId)
          IN  IF b.ok
              THEN /\ Set(r, [Step(slot[r]) EXCEPT
                                 !.calls["embed"] = @ + EmbedCalls(slot[r].chunks),
                                 !.newpoints = b.points,
                                 !.pc = TrainNext("embed")])
                   /\ nextId' = nextId + Len(b.points)
              ELSE /\ Set(r, TrainFail([Step(slot[r]) EXCEPT
                                           !.calls["embed"] = @ + EmbedCalls(slot[r].chunks)],
                                       "list index out of range"))
                   /\ UNCHANGED nextId
    /\ UNCHANGED <<chats, docs, points, collExists, collCreated, now>>

\* store_chunks: qdrant.upsert(points)
Upsert(r) ==
    /\ IsTrain(r, "upsert")
    /\ points' = points \o slot[r].newpoints
    /\ Set(r, [Step(slot[r]) EXCEPT !.calls = Bump(@, "vwrite"),
                                    !.inserted = @ \o slot[r].newpoints,
                                    !.pc = TrainNext("upsert")])
    /\ UNCHANGED <<chats, docs, collExists, collCreated, now, nextId>>

\* store_chunks: qdrant.get_collection()
CollectionInfo(r) ==
    /\ IsTrain(r, "info")
    /\ Set(r, [Step(slot[r]) EXCEPT !.calls = Bump(@, "vread"), !.pc = TrainNext("info")])
    /\ UNCHANGED <<chats, docs, points, collExists, collCreated, now, nextId>>

\* the result dictionary of TrainRouter.train, returned by main.train
TrainRespond(r) ==
    /\ IsTrain(r, "respond")
    /\ Set(r, [Step(slot[r]) EXCEPT
                 !.pc = "done", !.status = 200,
                 !.body = [shape |-> "train", user_id |-> slot[r].user_id,
                           filename |-> slot[r].file.name,
                           total_chunks |-> Len(slot[r].chunks),
                           chunks_stored |-> Len(slot[r].chunks),
                           file_stored |-> TRUE, status |-> "success"]])
    /\ UNCHANGED <<chats, docs, points, collExists, collCreated, now, nextId>>

\* the calls of train that may raise, and what each raises
TrainErrors ==
    [read |-> "read failed", savedoc |-> "insert failed", chunk |-> "split failed",
     embed |-> "Embedding failed", upsert |-> "upsert failed", info |-> "collection info failed"]

TrainCall ==
    [read |-> "", savedoc |-> "dwrite", chunk |-> "",
     embed |-> "embed", upsert |-> "vwrite", info |-> "vread"]

\* variant: chunks are embedded and inserted one at a time, so a failing
\* embedding leaves the point of the first chunk in the index
TrainStageFailPartial(r) ==
    /\ slot[r].kind = "train"
    /\ slot[r].pc \in DOMAIN TrainErrors
    /\ ~(slot[r].pc = "embed" /\ slot[r].chunks = <<>>)
    /\ Set(r, TrainFail([Step(slot[r]) EXCEPT
                 !.calls = IF TrainCall[slot[r].pc] = "" THEN @
                           ELSE Bump(@, TrainCall[slot[r].pc])],
                 TrainErrors[slot[r].pc]))
    /\ IF slot[r].pc = "embed"
       THEN /\ points' = points \o BuildPoints(slot[r].chunks, slot[r].metadata,
                                               <<Embed(slot[r].chunks[1])>>, nextId).points
            /\ nextId' = nextId + 1
       ELSE UNCHANGED <<points, nextId>>
    /\ UNCHANGED <<chats, docs, collExists, collCreated, now>>

\* a step of train raises: nothing is written by that step; embed_texts
\* makes no request for an empty list and so cannot fail on it
TrainStageFail(r) ==
    /\ slot[r].kind = "train"
    /\ slot[r].pc \in DOMAIN TrainErrors
    /\ ~(slot[r].pc = "embed" /\ slot[r].chunks = <<>>)
    /\ Set(r, TrainFail([Step(slot[r]) EXCEPT
                 !.calls = IF TrainCall[slot[r].pc] = "" THEN @
                           ELSE Bump(@, TrainCall[slot[r].pc])],
                 TrainErrors[slot[r].pc]))
    /\ UNCHANGED <<chats, docs, points, collExists, collCreated, now, nextId>>

\* ------------------------------------------------------------ environment
\* the wall clock advances
Tick ==
    /\ now < MaxClock
    /\ now' = now + 1
    /\ UNCHANGED <<chats, docs, points, collExists, collCreated, nextId, slot>>

\* the response has been delivered; the slot takes the next request
Retire(r) ==
    /\ slot[r].pc = "done"
    /\ Set(r, IdleSlot)
    /\ UNCHANGED <<chats, docs, points, collExists, collCreated, now, nextId>>

\* ---------------------------------------------------------------- Spec
\* the three endpoints, requests one after another; /predict is called
\* with session ids that /create-session issued and with one it never issued
Next ==
    \/ \E hdr \in Headers, sid \in IssuedSessions :
          CreateSession(1, hdr, "u1", sid)
    \/ \E hdr \in Headers, sid \in Sessions :
          PredictRequest(1, hdr, "u1", sid, "q1", MaxTurns)
    \/ \E hdr \in Headers, f \in {f \in Files : f.content \in {"empty", "two", "bad"}} :
          TrainRequest(1, hdr, "u1", f, MaxDocs)
    \/ CheckCollection(1)
    \/ CreateCollection(1)
    \/ ConstructFail(1)
    \/ EmbedQuery(1)
    \/ SearchIndex(1)
    \/ FetchHistory(1)
    \/ AssemblePrompt(1)
    \/ Generate(1, {"r1"})
    \/ ExtractResponse(1)
    \/ BuildTurn(1)
    \/ InsertTurn(1)
    \/ PredictRespond(1)
    \/ PredictStageFail(1)
    \/ ReadFile(1)
    \/ ExtractText(1)
    \/ SaveDocument(1)
    \/ ChunkDocument(1)
    \/ EmbedChunks(1)
    \/ Upsert(1)
    \/ CollectionInfo(1)
    \/ TrainRespond(1)
    \/ TrainStageFail(1)
    \/ Tick
    \/ Retire(1)

Spec == Init /\ [][Next]_vars

\* ----------------------------------------------------------- SpecQuery
\* /predict requests one after another, over an index that is empty or
\* holds the two chunks of one ingested document
IngestedDoc == UploadDoc("u1", GeneratedName("u1", <<"a", "txt">>), "two", 0)

IngestedPoints ==
    LET texts == chunk_text("two")
        full == CHOOSE e \in EmbedAnswers(texts) : Len(e) = Len(texts)
    IN  BuildPoints(texts, get_metadata_list(texts, GeneratedName("u1", <<"a", "txt">>), "u1"),
                    full, 0).points

InitQuery ==
    /\ chats = <<>>
    /\ \E ingested \in BOOLEAN :
          /\ docs = IF ingested THEN <<IngestedDoc>> ELSE <<>>
          /\ points = IF ingested THEN IngestedPoints ELSE <<>>
          /\ collExists = ingested
          /\ collCreated = IF ingested THEN 1 ELSE 0
          /\ nextId = IF ingested THEN Len(IngestedPoints) ELSE 0
    /\ now = 0
    /\ slot = [r \in Slots |-> IdleSlot]

NextQuery ==
    \/ \E hdr \in Headers, u \in Users, sid \in Sessions, q \in Queries :
          PredictRequest(1, hdr, u, sid, q, SeqTurns)
    \/ CheckCollection(1)
    \/ CreateCollection(1)
    \/ ConstructFail(1)
    \/ EmbedQuery(1)
    \/ SearchIndex(1)
    \/ FetchHistory(1)
    \/ AssemblePrompt(1)
    \/ Generate(1, Responses)
    \/ ExtractResponse(1)
    \/ BuildTurn(1)
    \/ InsertTurn(1)
    \/ PredictRespond(1)
    \/ PredictStageFail(1)
    \/ Tick
    \/ Retire(1)

SpecQuery == InitQuery /\ [][NextQuery]_vars

\* ----------------------------------------------------------- SpecTrain
\* /train requests one after another
NextTrain ==
    \/ \E hdr \in Headers, u \in Users, f \in Files :
          TrainRequest(1, hdr, u, f, SeqDocs)
    \/ CheckCollection(1)
    \/ CreateCollection(1)
    \/ ConstructFail(1)
    \/ ReadFile(1)
    \/ ExtractText(1)
    \/ SaveDocument(1)
    \/ ChunkDocument(1)
    \/ EmbedChunks(1)
    \/ Upsert(1)
    \/ CollectionInfo(1)
    \/ TrainRespond(1)
    \/ TrainStageFail(1)
    \/ Tick
    \/ Retire(1)

SpecTrain == Init /\ [][NextTrain]_vars

\* --------------------------------------------------------- SpecHistory
\* /predict requests over a chat collection that earlier requests, possibly
\* concurrent ones, have left: any sessions, any order of timestamps
\* the i-th turn of such a collection asked "ask<i>" and was answered "ans<i>"
StartChat(i, sid, ts) ==
    ChatDoc("u1", sid, "ask" \o ToString(i), "ans" \o ToString(i), ts)

InitHistory ==
    /\ \E n \in 0..MaxHist : \E f \in [1..n -> Sessions \X (0..MaxClock)] :
          chats = [i \in 1..n |-> StartChat(i, f[i][1], f[i][2])]
    /\ docs = <<>>
    /\ points = <<>>
    /\ collExists = TRUE
    /\ collCreated = 1
    /\ now = MaxClock
    /\ nextId = 0
    /\ slot = [r \in Slots |-> IdleSlot]

NextHistory ==
    \/ \E sid \in Sessions :
          PredictRequest(1, CLIENT_SECRET_KEY, "u1", sid, "q1", MaxHist + 1)
    \/ CheckCollection(1)
    \/ EmbedQuery(1)
    \/ SearchIndex(1)
    \/ FetchHistory(1)
    \/ AssemblePrompt(1)
    \/ Generate(1, {"r1"})
    \/ ExtractResponse(1)
    \/ BuildTurn(1)
    \/ InsertTurn(1)
    \/ PredictRespond(1)
    \/ Retire(1)

SpecHistory == InitHistory /\ [][NextHistory]_vars

\* --------------------------------------------------------- SpecSession
\* successful /predict requests one after another, over an index that
\* earlier ingestions have filled with n points
IndexAtStart(n, o) ==
    [i \in 1..n |->
        [id |-> i,
         vector |-> ((i + o) % 3) + 1,
         payload |-> MergePayload([text |-> "c" \o ToString(i)],
                        [source |-> GeneratedName("u1", <<"a", "txt">>), user_id |-> "u1"])]]

InitSession ==
    /\ chats = <<>>
    /\ docs = <<>>
    /\ \E n \in 0..MaxIndex, o \in 0..2 :
          /\ points = IndexAtStart(n, o)
          /\ nextId = n
    /\ collExists = TRUE
    /\ collCreated = 1
    /\ now = 0
    /\ slot = [r \in Slots |-> IdleSlot]

NextSession ==
    \/ \E sid \in Sessions :
          PredictRequest(1, CLIENT_SECRET_KEY, "u1", sid, "q1", SessTurns)
    \/ CheckCollection(1)
    \/ EmbedQuery(1)
    \/ SearchIndex(1)
    \/ FetchHistory(1)
    \/ AssemblePrompt(1)
    \/ Generate(1, {"r1"})
    \/ ExtractResponse(1)
    \/ BuildTurn(1)
    \/ InsertTurn(1)
    \/ PredictRespond(1)
    \/ Tick
    \/ Retire(1)

SpecSession == InitSession /\ [][NextSession]_vars

\* ------------------------------------------------------------ SpecLoop
\* two /predict requests in flight in one server process, over an index that
\* is empty or holds the two chunks of one ingested document. The endpoint is a
\* coroutine and PredictRouter.predict_flow, although declared async, holds
\* no await: every call in it (requests.post, pymongo, the local qdrant
\* client) blocks the event loop, so a handler that has started runs to its
\* return before the loop starts the handler of another request.

\* the request has been received; its handler has not started
Accept(r, hdr, u, sid, q, cap) ==
    /\ slot[r].pc = "idle"
    /\ Len(chats) + Cardinality(InFlight("predict")) < cap
    /\ Set(r, [IdleSlot EXCEPT !.kind = "predict", !.hdr = hdr, !.user_id = u,
                               !.session_id = sid, !.query = q, !.pc = "queued"])
    /\ UNCHANGED <<chats, docs, points, collExists, collCreated, now, nextId>>

\* no handler of another request is between its start and its return
LoopFree(r) == \A o \in Slots \ {r} : slot[o].pc \in {"idle", "queued", "done"}

\* variant: the loop starts a handler while another one is suspended
DispatchAnytime(r) ==
    /\ slot[r].pc = "queued"
    /\ IF AuthStatus(slot[r].hdr) # 0
       THEN Set(r, HttpError(slot[r], AuthStatus(slot[r].hdr), "rejected"))
       ELSE Set(r, [slot[r] EXCEPT !.pc = "check"])
    /\ UNCHANGED <<chats, docs, points, collExists, collCreated, now, nextId>>

\* the event loop starts the handler of a received request: the dependency
\* verify_client_secret, then the body of main.predict
Dispatch(r) ==
    /\ slot[r].pc = "queued"
    /\ LoopFree(r)
    /\ IF AuthStatus(slot[r].hdr) # 0
       THEN Set(r, HttpError(slot[r], AuthStatus(slot[r].hdr), "rejected"))
       ELSE Set(r, [slot[r] EXCEPT !.pc = "check"])
    /\ UNCHANGED <<chats, docs, points, collExists, collCreated, now, nextId>>

NextLoop ==
    \E r \in Slots :
        \/ \E sid \in Sessions, q \in Queries :
              Accept(r, CLIENT_SECRET_KEY, "u1", sid, q, LoopTurns)
        \/ Dispatch(r)
        \/ CheckCollection(r)
        \/ CreateCollection(r)
        \/ EmbedQuery(r)
        \/ SearchIndex(r)
        \/ FetchHistory(r)
        \/ AssemblePrompt(r)
        \/ Generate(r, {"r1"})
        \/ ExtractResponse(r)
        \/ BuildTurn(r)
        \/ InsertTurn(r)
        \/ PredictRespond(r)
        \/ Tick
        \/ Retire(r)

SpecLoop == InitQuery /\ [][NextLoop]_vars

\* ----------------------------------------------------------- SpecStore
\* one call store_chunks(texts, metadatas) with any texts and any metadatas
\* that are not longer than the texts; metadatas omitted is the empty list
SeqsUpTo(S, n) == UNION { [1..k -> S] : k \in 0..n }
StoreTexts == {"c1", "c2"}
StoreMetas == { [source |-> "doc", user_id |-> "u1"], [text |-> "shadow"] }

InitStore ==
    /\ chats = <<>>
    /\ docs = <<>>
    /\ points = <<>>
    /\ collExists = TRUE
    /\ collCreated = 1
    /\ now = 0
    /\ nextId = 0
    /\ \E texts \in SeqsUpTo(StoreTexts, StoreLen) :
          \E metadatas \in SeqsUpTo(StoreMetas, Len(texts)) :
             slot = [r \in Slots |->
                        IF r = 1
                        THEN [IdleSlot EXCEPT !.kind = "train", !.pc = "embed",
                                              !.hdr = CLIENT_SECRET_KEY, !.user_id = "u1",
                                              !.chunks = texts, !.metadata = metadatas]
                        ELSE IdleSlot]

NextStore ==
    \/ EmbedChunks(1)
    \/ Upsert(1)
    \/ CollectionInfo(1)
    \/ TrainStageFail(1)

SpecStore == InitStore /\ [][NextStore]_vars

\* ---------------------------------------------------------- SpecServer
\* one server process answering /train and /predict on one event loop, from
\* the state in which the collection does not exist yet. A handler runs from
\* its start to its return without yielding, with one exception: train
\* awaits file.read() after TrainRouter() has been constructed, and the loop
\* may run other handlers while that read is pending.

\* POST /train has been received; its handler has not started
AcceptTrain(r, hdr, u, f, cap) ==
    /\ slot[r].pc = "idle"
    /\ Len(docs) + Cardinality(InFlight("train")) < cap
    /\ nextId + 2 * (Cardinality(InFlight("train")) + 1) <= MaxPoints
    /\ Set(r, [IdleSlot EXCEPT !.kind = "train", !.hdr = hdr, !.user_id = u,
                               !.file = f, !.pc = "queued"])
    /\ UNCHANGED <<chats, docs, points, collExists, collCreated, now, nextId>>

\* handler o does not hold the event loop: it has not started, it has
\* returned, or it is a train run waiting at await file.read()
Yielded(o) == slot[o].pc \in {"idle", "queued", "done"} \/ IsTrain(o, "read")

\* the event loop can run handler r: every other handler has yielded
ServerFree(r) == \A o \in Slots \ {r} : Yielded(o)

\* the event loop starts the handler of a received request: the dependency
\* verify_client_secret, then the body of main.train or main.predict
DispatchServer(r) ==
    /\ slot[r].pc = "queued"
    /\ IF AuthStatus(slot[r].hdr) # 0
       THEN Set(r, HttpError(slot[r], AuthStatus(slot[r].hdr), "rejected"))
       ELSE Set(r, [slot[r] EXCEPT !.pc = "check"])
    /\ UNCHANGED <<chats, docs, points, collExists, collCreated, now, nextId>>

\* one step of handler r, from the construction of its router to its answer
RunStep(r) ==
    \/ CheckCollection(r)
    \/ CreateCollection(r)
    \/ ConstructFail(r)
    \/ EmbedQuery(r)
    \/ SearchIndex(r)
    \/ FetchHistory(r)
    \/ AssemblePrompt(r)
    \/ Generate(r, {"r1"})
    \/ ExtractResponse(r)
    \/ BuildTurn(r)
    \/ InsertTurn(r)
    \/ PredictRespond(r)
    \/ PredictStageFail(r)
    \/ ReadFile(r)
    \/ ExtractText(r)
    \/ SaveDocument(r)
    \/ ChunkDocument(r)
    \/ EmbedChunks(r)
    \/ Upsert(r)
    \/ CollectionInfo(r)
    \/ TrainRespond(r)
    \/ TrainStageFail(r)

NextServer ==
    \E r \in Slots :
        \/ \E sid \in Sessions :
              Accept(r, CLIENT_SECRET_KEY, "u1", sid, "q1", ServTurns)
        \/ \E f \in {g \in Files : g.content = "two"} :
              AcceptTrain(r, CLIENT_SECRET_KEY, "u1", f, ServDocs)
        \/ ServerFree(r) /\ DispatchServer(r)
        \/ ServerFree(r) /\ RunStep(r)
        \/ Retire(r)

SpecServer == Init /\ [][NextServer]_vars

\* ------------------------------------------------------------ SpecLive
\* the requests of Spec with the progress the code guarantees. The generation
\* call carries timeout=100 (llm_client.chat), the vector index is an
\* in-process local store and the remaining steps are computation, so each of
\* them returns or raises; the document store is granted the same. The two
\* embedding calls, requests.post in embed_text and in embed_texts, carry no
\* timeout argument: nothing in the code makes them return.

\* the stages that wait on an embedding call
NoTimeout == {"retrieve", "embed"}

\* a step of run r at a stage that returns or raises within a bounded time
BoundedStep(r) == slot[r].pc \notin NoTimeout /\ RunStep(r)

SpecLive == Init /\ [][Next]_vars /\ WF_vars(BoundedStep(1))

\* ---------------------------------------------------------- SpecIngest
\* /train requests one after another, text files, binary files and PDF
\* files, over stores that are empty or hold one ingested document
IngestFiles ==
    Files \cup { [name |-> <<"c", "pdf">>, content |-> "two"],
                 [name |-> <<"c", "pdf">>, content |-> "bad"] }

NextIngest ==
    \/ \E u \in Users, f \in IngestFiles :
          TrainRequest(1, CLIENT_SECRET_KEY, u, f, IngestDocs)
    \/ CheckCollection(1)
    \/ CreateCollection(1)
    \/ ConstructFail(1)
    \/ ReadFile(1)
    \/ ExtractText(1)
    \/ SaveDocument(1)
    \/ ChunkDocument(1)
    \/ EmbedChunks(1)
    \/ Upsert(1)
    \/ CollectionInfo(1)
    \/ TrainRespond(1)
    \/ TrainStageFail(1)
    \/ Retire(1)

SpecIngest == InitQuery /\ [][NextIngest]_vars

\* ------------------------------------------------------------ SpecPair
\* /predict requests of two users on one event loop, over stores that user
\* u1 has filled: one ingested document and one chat turn of session s1
InitPair ==
    /\ chats = <<StartChat(1, "s1", 0)>>
    /\ docs = <<IngestedDoc>>
    /\ points = IngestedPoints
    /\ collExists = TRUE
    /\ collCreated = 1
    /\ now = 0
    /\ nextId = Len(IngestedPoints)
    /\ slot = [r \in Slots |-> IdleSlot]

NextPair ==
    \E r \in Slots :
        \/ \E u \in Users, q \in Queries :
              Accept(r, CLIENT_SECRET_KEY, u, "s1", q, PairTurns)
        \/ Dispatch(r)
        \/ CheckCollection(r)
        \/ EmbedQuery(r)
        \/ SearchIndex(r)
        \/ FetchHistory(r)
        \/ AssemblePrompt(r)
        \/ Generate(r, {"r1"})
        \/ ExtractResponse(r)
        \/ BuildTurn(r)
        \/ InsertTurn(r)
        \/ PredictRespond(r)
        \/ PredictStageFail(r)
        \/ Retire(r)

SpecPair == InitPair /\ [][NextPair]_vars

\* --------------------------------------------------------- SpecWorkers
\* two server processes on the same stores, one request at a time each, from
\* the state in which the collection does not exist yet: the steps of the
\* two handlers interleave freely, the two calls of RetrieverService.__init__
\* included
NextWorkers ==
    \E r \in Slots :
        \/ PredictRequest(r, CLIENT_SECRET_KEY, "u1", "s1", "q1", WorkTurns)
        \/ \E f \in {g \in Files : g.content = "two"} :
              TrainRequest(r, CLIENT_SECRET_KEY, "u1", f, WorkDocs)
        \/ RunStep(r)
        \/ Retire(r)

SpecWorkers == Init /\ [][NextWorkers]_vars

\* =============================================================== claims
Last(q) == IF q = <<>> THEN "" ELSE q[Len(q)]
Range(q) == { q[i] : i \in 1..Len(q) }
IsPrefix(p, q) == Len(p) <= Len(q) /\ \A i \in 1..Len(p) : p[i] = q[i]
Authorized(r) == slot[r].kind # "none" /\ slot[r].hdr = CLIENT_SECRET_KEY
\* the steps of a run after the routers were constructed
Stages(trace) == SelectSeq(trace, LAMBDA x : x \notin {"check", "create"})

\* C1: the history a run has just read holds exactly 2*min(n,3) lines, n the
\* number of turns of the run's session: the min(n,3) turns of that session
\* with the latest timestamps, oldest first, each turn as its QUERY line
\* followed by its RESPONSE line, and no turn of another session.
C1_HistoryWindow ==
    \A r \in Slots :
        IsPredict(r, "prompt") =>
            LET mine == FindSession(chats, slot[r].session_id)
                m == Min(Cardinality(mine), 3)
                h == slot[r].history
            IN  /\ Len(h) = 2 * m
                /\ \E idx \in [1..m -> mine] :
                      /\ \A i, j \in 1..m : i # j => idx[i] # idx[j]
                      /\ \A i \in 1..m :
                            /\ h[2 * i - 1] = <<"QUERY: ", chats[idx[i]].query>>
                            /\ h[2 * i] = <<"RESPONSE: ", chats[idx[i]].response>>
                      /\ \A i, j \in 1..m :
                            i < j => chats[idx[i]].timestamp <= chats[idx[j]].timestamp
                      /\ \A k \in mine \ Range(idx) : \A i \in 1..m :
                            chats[k].timestamp <= chats[idx[i]].timestamp

\* a run has read the history of a session with more than three turns whose
\* timestamps are not in insertion order
C1_Witness ==
    \E r \in Slots :
        /\ IsPredict(r, "prompt")
        /\ Len(slot[r].history) = 6
        /\ LET mine == FindSession(chats, slot[r].session_id)
           IN  /\ Cardinality(mine) > 3
               /\ \E i, j \in mine : i < j /\ chats[i].timestamp > chats[j].timestamp

\* C2: a run writes its chat turn only after generation succeeded, a failed
\* run has written none, and a run that returned a result has written exactly
\* one turn, with its user, session, query and the generated response.
C2_OneTurnPerRun ==
    \A r \in Slots :
        slot[r].kind = "predict" =>
            /\ Len(slot[r].written) <= 1
            /\ slot[r].written # <<>> =>
                  /\ ResponseOk(slot[r].json)
                  /\ IsPrefix(<<"retrieve", "search", "history", "prompt", "generate", "extract">>,
                              Stages(slot[r].trace))
            /\ slot[r].status = 500 => slot[r].written = <<>>
            /\ slot[r].status = 200 =>
                  /\ Len(slot[r].written) = 1
                  /\ \E i \in 1..Len(chats) : chats[i] = slot[r].written[1]
                  /\ slot[r].written[1].user_id = slot[r].user_id
                  /\ slot[r].written[1].session_id = slot[r].session_id
                  /\ slot[r].written[1].query = slot[r].query
                  /\ slot[r].written[1].response = slot[r].json.choices[1]
                  /\ slot[r].body.response = slot[r].json.choices[1]

\* a run returned its result while the collection holds the turn of an
\* earlier run as well
C2_Witness ==
    \E r \in Slots :
        /\ slot[r].kind = "predict"
        /\ slot[r].status = 200
        /\ Len(slot[r].written) = 1
        /\ Len(chats) >= 2

\* C3: the steps of a run happen in the order Retrieve, Fetch history,
\* Assemble prompt, Generate, Persist, Respond; the history read is never
\* issued before the retrieval calls of the run have returned.
C3_StageOrder ==
    \A r \in Slots :
        slot[r].kind = "predict" =>
            /\ IsPrefix(Stages(slot[r].trace),
                        <<"retrieve", "search", "history", "prompt", "generate",
                          "extract", "persist", "insert", "respond">>)
            /\ "history" \in Range(slot[r].trace) =>
                  /\ slot[r].calls["embed"] = 1
                  /\ slot[r].calls["vread"] >= 2

\* a run is about to read the history, its retrieval having returned the
\* chunks of the index
C3_Witness ==
    \E r \in Slots :
        /\ IsPredict(r, "history")
        /\ slot[r].calls["embed"] = 1
        /\ slot[r].calls["dread"] = 0
        /\ Len(slot[r].context) = 2

\* C4: when a step of a run fails, no later step of that run is executed and
\* the run answers with an error, never with a result; a result is produced
\* only by a run all of whose steps succeeded.
C4_FailureAborts ==
    \A r \in Slots :
        slot[r].kind = "predict" =>
            /\ slot[r].err # "" =>
                  /\ slot[r].pc = "done"
                  /\ slot[r].status = 500
                  /\ slot[r].body.shape = "error"
                  /\ LET at == Last(slot[r].trace)
                     IN  \/ at \in {"check", "create"}
                         \/ at = "extract" /\ slot[r].err = "Invalid response format"
                         \/ at \in DOMAIN PredictErrors /\ slot[r].err = PredictErrors[at]
            /\ slot[r].body.shape = "predict" =>
                  /\ slot[r].err = ""
                  /\ Stages(slot[r].trace) =
                        <<"retrieve", "search", "history", "prompt", "generate",
                          "extract", "persist", "insert", "respond">>

\* the generation call of a run has failed after its retrieval and history
\* read succeeded
C4_Witness ==
    \E r \in Slots :
        /\ slot[r].kind = "predict"
        /\ slot[r].err = "Network error"
        /\ slot[r].status = 500
        /\ Stages(slot[r].trace) = <<"retrieve", "search", "history", "prompt", "generate">>

\* C5: when the generation of a run succeeded and its save fails, the run
\* answers with an error and not with the generated response, it has written
\* no chat turn, and it issues no second write and no further call.
C5_SaveFailure ==
    /\ [](\A r \in Slots :
            (slot[r].kind = "predict" /\ slot[r].calls["dwrite"] >= 1
                /\ slot[r].written = <<>>) =>
                /\ slot[r].pc = "done"
                /\ slot[r].status = 500
                /\ slot[r].body.shape = "error"
                /\ slot[r].response \in Responses
                /\ slot[r].calls["dwrite"] = 1
                /\ slot[r].calls["llm"] = 1
                /\ Last(slot[r].trace) = "insert")
    /\ [][\A r \in Slots :
            (IsPredict(r, "insert") /\ slot'[r].pc # "insert" /\ slot'[r].written = <<>>) =>
                /\ chats' = chats
                /\ slot'[r].status = 500]_vars

\* the save of a run has failed after a generated response was extracted
C5_Witness ==
    \E r \in Slots :
        /\ slot[r].kind = "predict"
        /\ slot[r].err = "insert failed"
        /\ slot[r].response \in Responses
        /\ slot[r].status = 500

\* C6: a request to /train or /predict whose X-Client-Secret header is missing
\* or wrong is answered at once, without any step of a pipeline: no call to
\* the embedding or generation service, no read or write of the vector index,
\* the document collection or the chat collection.
C6_AuthGate ==
    \A r \in Slots :
        (slot[r].kind # "none" /\ slot[r].hdr # CLIENT_SECRET_KEY) =>
            /\ slot[r].pc = "done"
            /\ slot[r].status \in {401, 422}
            /\ slot[r].trace = <<>>
            /\ slot[r].calls = NoCalls
            /\ slot[r].written = <<>>
            /\ slot[r].saved = <<>>
            /\ slot[r].inserted = <<>>

\* a request without the header has been answered while the collections
\* hold a document, points and a chat turn of earlier requests
C6_Witness ==
    \E r \in Slots :
        /\ slot[r].kind \in {"train", "predict"}
        /\ slot[r].hdr = NoHeader
        /\ slot[r].pc = "done"
        /\ docs # <<>> /\ points # <<>> /\ chats # <<>>

\* C7: a request without the X-Client-Secret header and a request with a
\* wrong header value are both answered with status 401.
C7_Rejected401 ==
    \A r \in Slots :
        (slot[r].kind # "none" /\ slot[r].hdr # CLIENT_SECRET_KEY /\ slot[r].pc = "done") =>
            slot[r].status = 401

\* C8 as stated: the ingestion of a document that yields no chunk (no step of
\* the run raising) answers with status "failed" and writes neither a
\* document record nor a point.
C8_ZeroChunksNoWrite ==
    \A r \in Slots :
        (slot[r].kind = "train" /\ slot[r].pc = "done"
            /\ slot[r].file.content = "empty" /\ "chunk" \in Range(slot[r].trace)
            /\ slot[r].err = "") =>
            /\ slot[r].status = 200
            /\ slot[r].body.status = "failed"
            /\ slot[r].saved = <<>>
            /\ slot[r].inserted = <<>>

\* C8 amended: the ingestion of a document that yields no chunk (no step of
\* the run raising) answers with the structured result of status "failed", issues no embedding call and
\* inserts no point; the document collection has gained the one record of
\* the raw document, written before the chunking.
C8_ZeroChunksNoPoints ==
    \A r \in Slots :
        (slot[r].kind = "train" /\ slot[r].pc = "done"
            /\ slot[r].file.content = "empty" /\ "chunk" \in Range(slot[r].trace)
            /\ slot[r].err = "") =>
            /\ slot[r].status = 200
            /\ slot[r].body.status = "failed"
            /\ slot[r].body.message = "No chunks generated from document"
            /\ slot[r].inserted = <<>>
            /\ slot[r].calls["embed"] = 0
            /\ Len(slot[r].saved) = 1
            /\ slot[r].saved[1].file_content = ""
            /\ \E i \in 1..Len(docs) : docs[i] = slot[r].saved[1]

\* the upload of an empty file has been answered after its chunking step
C8_Witness ==
    \E r \in Slots :
        /\ slot[r].kind = "train" /\ slot[r].pc = "done"
        /\ slot[r].file.content = "empty"
        /\ Last(slot[r].trace) = "chunk"
        /\ slot[r].err = ""
        /\ slot[r].body.status = "failed"

\* C9 as stated: every failure of an authenticated ingestion request, the
\* construction of the store connections included, is answered with status
\* 200 and the structured result of status "failed".
C9_TrainFailureIsData ==
    \A r \in Slots :
        (slot[r].kind = "train" /\ Authorized(r) /\ slot[r].pc = "done") =>
            /\ slot[r].status = 200
            /\ slot[r].body.status \in {"failed", "success"}

\* C9 amended: every failure inside TrainRouter.train (read, extract, save,
\* chunk, embed, index write) is answered with status 200 and the structured
\* result {error, message, user_id, filename, status: "failed"}; a failure
\* while the store connections are constructed is answered with status 500.
C9_StageFailureIsData ==
    \A r \in Slots :
        (slot[r].kind = "train" /\ Authorized(r) /\ slot[r].pc = "done") =>
            IF Last(slot[r].trace) \in {"check", "create"}
            THEN slot[r].status = 500 /\ slot[r].body.shape = "error"
            ELSE /\ slot[r].status = 200
                 /\ Last(slot[r].trace) # "respond" =>
                       /\ DOMAIN slot[r].body =
                             {"shape", "error", "message", "user_id", "filename", "status"}
                       /\ slot[r].body.status = "failed"
                       /\ slot[r].body.user_id = slot[r].user_id
                       /\ slot[r].body.filename = slot[r].file.name
                       /\ slot[r].err # "" => slot[r].body.message = slot[r].err

\* the embedding call of an ingestion has failed after the document record
\* was saved
C9_Witness ==
    \E r \in Slots :
        /\ slot[r].kind = "train" /\ slot[r].pc = "done"
        /\ slot[r].err = "Embedding failed"
        /\ Len(slot[r].saved) = 1
        /\ slot[r].status = 200

\* C10: an ingestion that answers with status "success" has inserted one
\* point per chunk, each with the text of its chunk, and the total_chunks and
\* chunks_stored of the answer equal the number of points inserted.
C10_OnePointPerChunk ==
    \A r \in Slots :
        (slot[r].kind = "train" /\ slot[r].pc = "done" /\ slot[r].status = 200
            /\ slot[r].body.status = "success") =>
            /\ Len(slot[r].inserted) = Len(slot[r].chunks)
            /\ \A i \in 1..Len(slot[r].inserted) :
                  slot[r].inserted[i].payload.text = slot[r].chunks[i]
            /\ slot[r].body.total_chunks = Len(slot[r].inserted)
            /\ slot[r].body.chunks_stored = Len(slot[r].inserted)

\* C11: a successful query of a session that holds p earlier turns (the
\* queries of the session run one after another, so the i-th query finds
\* p = i-1 turns) returns chat_history_length 2*p while p <= 3 and 6 for
\* every later query; its chunks_retrieved is the number of chunks the run
\* retrieved, and is at most 5.
C11_HistoryLength ==
    \A r \in Slots :
        (slot[r].kind = "predict" /\ slot[r].pc = "done" /\ slot[r].status = 200) =>
            LET p == Cardinality(FindSession(chats, slot[r].session_id)) - 1
            IN  /\ slot[r].body.chat_history_length = (IF p <= 3 THEN 2 * p ELSE 6)
                /\ slot[r].body.chunks_retrieved = Len(slot[r].context)
                /\ slot[r].body.chunks_retrieved <= 5

\* the fifth query of a session has been answered over an index of more
\* than five points
C11_Witness ==
    \E r \in Slots :
        /\ slot[r].kind = "predict" /\ slot[r].pc = "done" /\ slot[r].status = 200
        /\ Cardinality(FindSession(chats, slot[r].session_id)) = 5
        /\ slot[r].body.chat_history_length = 6
        /\ Len(points) > 5
        /\ slot[r].body.chunks_retrieved = 5

\* the stored point a retrieved text belongs to
PointOf(t) == points[CHOOSE i \in 1..Len(points) : points[i].payload.text = t]
\* the retrieval of run r has just returned
Searched(r) == slot[r].kind = "predict" /\ Last(slot[r].trace) = "search"

\* C12: retrieve_similar_chunks(query, k) returns exactly min(k, number of
\* points of the index) texts, most relevant first: the texts of the
\* retrieved points have non-increasing scores and no point left out scores
\* higher than a retrieved one; on an empty index the result is the empty
\* sequence and the retrieval step does not fail.
C12_TopK ==
    \A r \in Slots :
          Searched(r) =>
             LET ctx == slot[r].context
                 sc(t) == Score(PointOf(t).vector, slot[r].qvec)
             IN  /\ \A k \in 0..MaxIndex + 1 :
                       Len(ResultTexts(Search(points, slot[r].qvec, k))) = Min(k, Len(points))
                 /\ Len(ctx) = Min(TopK, Len(points))
                 /\ \A i \in 1..Len(ctx) : \E j \in 1..Len(points) : points[j].payload.text = ctx[i]
                 /\ \A i, j \in 1..Len(ctx) : i < j => (ctx[i] # ctx[j] /\ sc(ctx[i]) >= sc(ctx[j]))
                 /\ \A j \in 1..Len(points) :
                       points[j].payload.text \notin Range(ctx) =>
                          \A i \in 1..Len(ctx) :
                             sc(ctx[i]) >= Score(points[j].vector, slot[r].qvec)
                 /\ points = <<>> => (ctx = <<>> /\ slot[r].err = "")

\* a retrieval over an index of more than k points has returned k texts, and
\* the first of them is not the first stored point
C12_Witness ==
    \E r \in Slots :
        /\ Searched(r)
        /\ Len(points) > TopK
        /\ Len(slot[r].context) = TopK
        /\ slot[r].context[1] # points[1].payload.text

\* the retrieval of run r has returned
HasSearched(r) ==
    /\ slot[r].kind = "predict"
    /\ "search" \in Range(slot[r].trace)
    /\ ~(slot[r].err # "" /\ Last(slot[r].trace) = "search")

ReadNotWritten(r) ==
    /\ slot[r].kind = "predict"
    /\ slot[r].pc \in {"prompt", "generate", "extract", "persist", "insert"}
\* the handler of request r is between its start and its return
MidRun(r) == slot[r].pc \notin {"idle", "queued", "done"}
\* the history h shows the turn of query q answered by resp
ShowsTurn(h, q, resp) ==
    \E i \in 1..Len(h) - 1 : h[i] = <<"QUERY: ", q>> /\ h[i + 1] = <<"RESPONSE: ", resp>>

FlowFailed(r) ==
    /\ slot[r].kind = "predict" /\ slot[r].pc = "done"
    /\ slot[r].err # "" /\ Stages(slot[r].trace) # <<>>

\* C15: every failure inside predict_flow, at whatever step and with
\* whatever underlying error, reaches main.predict as one RAGError ("Error in
\* predict_flow: ...") and is answered with status 500, never with a
\* success status; a run answered with a success status has not failed.
C15_FailureIs500 ==
    \A r \in Slots :
        /\ FlowFailed(r) =>
              /\ slot[r].status = 500
              /\ slot[r].body.shape = "error"
              /\ slot[r].body.detail[2][1] = "Error in predict_flow: "
        /\ (slot[r].kind = "predict" /\ slot[r].status \in 200..299) =>
              (slot[r].err = "" /\ slot[r].body.shape = "predict")

\* the vector search of a run has failed
C15_Witness ==
    \E r \in Slots :
        /\ FlowFailed(r)
        /\ slot[r].err = "search failed"
        /\ Last(slot[r].trace) = "search"
        /\ slot[r].status = 500

\* the strings of the detail a failed query is answered with
ClientMessage(r) ==
    <<slot[r].body.detail[1], slot[r].body.detail[2][1], slot[r].body.detail[2][2]>>
\* run r has failed inside TrainRouter.train with an exception
TrainFailed(r) ==
    /\ slot[r].kind = "train" /\ slot[r].pc = "done"
    /\ slot[r].err # "" /\ Stages(slot[r].trace) # <<>>

\* C16 as stated: the message of a failed query is generic, it does not
\* carry the underlying error, and the message of a failed ingestion result
\* is the underlying error message.
C16_GenericQueryMessage ==
    \A r \in Slots :
        /\ FlowFailed(r) => slot[r].err \notin Range(ClientMessage(r))
        /\ TrainFailed(r) => slot[r].body.message = slot[r].err

\* C16 amended: the message of a failed query is the fixed text "Prediction
\* failed: Error in predict_flow: " followed by the underlying error message:
\* it names no step, and it differs with the underlying error; the message
\* of a failed ingestion result is the underlying error message.
C16_MessageCarriesError ==
    \A r \in Slots :
        /\ FlowFailed(r) =>
              /\ ClientMessage(r) =
                    <<"Prediction failed: ", "Error in predict_flow: ", slot[r].err>>
              /\ Last(slot[r].trace) \notin Range(ClientMessage(r))
        /\ TrainFailed(r) =>
              /\ slot[r].body.message = slot[r].err
              /\ slot[r].body.error = "Processing Error"

\* the history read of a run has failed and the client has been answered
C16_Witness ==
    \E r \in Slots :
        /\ FlowFailed(r)
        /\ slot[r].err = "history read failed"
        /\ slot[r].body.detail[2][2] = "history read failed"

\* C17: sessions have no stored existence. /create-session answers with a
\* session id of status "active" and makes no call and no write; a query
\* with any session id, also one /create-session never issued, that finds no
\* turn of its session runs the whole pipeline, returns
\* chat_history_length 0 and persists its turn under that id.
C17_NoStoredSessions ==
    /\ [](\A r \in Slots :
            /\ (slot[r].kind = "session" /\ Authorized(r)) =>
                  /\ slot[r].status = 200
                  /\ slot[r].body.status = "active"
                  /\ slot[r].calls = NoCalls
            /\ (slot[r].kind = "predict" /\ slot[r].pc = "done" /\ slot[r].status = 200
                    /\ Cardinality(FindSession(chats, slot[r].session_id)) = 1) =>
                  /\ slot[r].body.chat_history_length = 0
                  /\ Stages(slot[r].trace) =
                        <<"retrieve", "search", "history", "prompt", "generate",
                          "extract", "persist", "insert", "respond">>
                  /\ Len(slot[r].written) = 1
                  /\ slot[r].written[1].session_id = slot[r].session_id
                  /\ chats[Len(chats)] = slot[r].written[1])
    /\ [][\A r \in Slots :
            slot'[r].kind = "session" =>
                (chats' = chats /\ docs' = docs /\ points' = points
                    /\ collExists' = collExists)]_vars

\* a query on a session id that /create-session never issues has been
\* answered and its turn is stored under that id
C17_Witness ==
    \E r \in Slots :
        /\ slot[r].kind = "predict" /\ slot[r].pc = "done" /\ slot[r].status = 200
        /\ slot[r].session_id \notin IssuedSessions
        /\ slot[r].body.chat_history_length = 0
        /\ \E i \in 1..Len(chats) : chats[i].session_id = slot[r].session_id

\* how often step x was issued in a run
Times(trace, x) == Cardinality({ i \in 1..Len(trace) : trace[i] = x })

\* C18: no retry, no cache. In one query run the query embedding, the vector
\* search, the history read, the generation call and the turn write are each
\* issued at most once, also when one of them fails; in one ingestion run the
\* batch embedding and the index upsert are each issued at most once; every
\* answered query, a repeated one included, has issued its own retrieval and
\* its own generation call.
C18_NoRetryNoCache ==
    \A r \in Slots :
        /\ \A x \in {"retrieve", "search", "history", "generate", "insert",
                      "embed", "upsert"} : Times(slot[r].trace, x) <= 1
        /\ slot[r].calls.embed <= 1
        /\ slot[r].calls.llm <= 1
        /\ slot[r].calls.dread <= 1
        /\ slot[r].calls.dwrite <= 1
        /\ (slot[r].kind = "predict" /\ slot[r].status = 200) =>
              /\ slot[r].calls.embed = 1
              /\ slot[r].calls.llm = 1
              /\ Times(slot[r].trace, "search") = 1

\* the same query has been answered a second time on the same session
C18_Witness ==
    \E r \in Slots :
        /\ slot[r].kind = "predict" /\ slot[r].status = 200
        /\ slot[r].calls.llm = 1
        /\ Cardinality({ i \in 1..Len(chats) :
                            /\ chats[i].session_id = slot[r].session_id
                            /\ chats[i].query = slot[r].query }) = 2

\* run r is an ingestion answered with status "success"
Ingested(r) ==
    /\ slot[r].kind = "train" /\ slot[r].pc = "done" /\ slot[r].status = 200
    /\ slot[r].body.status = "success"
\* the ids of the points of the index are pairwise distinct
DistinctIds == \A i, j \in 1..Len(points) : points[i].id = points[j].id => i = j

\* C19: no deduplication. Every successful ingestion of a document, a
\* repeated one included, adds len(chunks) points to the points the index
\* already holds and one record to the records the document store already
\* holds, and all point ids of the index are distinct: n ingestions of one
\* document leave n*len(chunks) points and n records.
C19_NoDedup ==
    \A r \in Slots :
        Ingested(r) =>
            LET k == Len(slot[r].chunks)
                n == Len(points)
            IN  /\ n >= k
                /\ \A i \in 1..k : points[n - k + i].payload.text = slot[r].chunks[i]
                /\ DistinctIds
                /\ docs # <<>>
                /\ docs[Len(docs)].file_content = slot[r].text

\* the payload the claim gives chunk i of texts under metadatas
PaddedPayload(texts, metadatas, i) ==
    IF i <= Len(metadatas)
    THEN [k \in {"text"} \cup DOMAIN metadatas[i] |->
             IF k \in DOMAIN metadatas[i] THEN metadatas[i][k] ELSE texts[i]]
    ELSE [text |-> texts[i]]

\* C20: store_chunks(texts, metadatas) with fewer metadatas than texts
\* (metadatas omitted included) does not fail for that: whenever the
\* embedding service answers with no more embeddings than texts the points
\* are built, and the point of chunk i carries {text: texts[i]} merged with
\* metadatas[i] when i is below len(metadatas) and {text: texts[i]} alone
\* otherwise; these points are the ones written to the index.
C20_MetadataPadding ==
    \A r \in Slots :
        /\ IsTrain(r, "embed") =>
              \A e \in EmbedAnswers(slot[r].chunks) :
                 Len(e) <= Len(slot[r].chunks) =>
                    LET b == BuildPoints(slot[r].chunks, slot[r].metadata, e, nextId)
                    IN  /\ b.ok
                        /\ Len(b.points) = Len(e)
                        /\ \A i \in 1..Len(e) :
                              b.points[i].payload =
                                 PaddedPayload(slot[r].chunks, slot[r].metadata, i)
        /\ (slot[r].kind = "train" /\ slot[r].pc \in {"upsert", "info", "respond"}) =>
              \A i \in 1..Len(slot[r].newpoints) :
                 slot[r].newpoints[i].payload =
                    PaddedPayload(slot[r].chunks, slot[r].metadata, i)
        /\ (slot[r].kind = "train" /\ slot[r].pc \in {"info", "respond"}) =>
              slot[r].inserted = slot[r].newpoints

\* the points of three texts with one metadata entry have been written: the
\* first carries the merged payload, the last the text alone
C20_Witness ==
    \E r \in Slots :
        /\ IsTrain(r, "info")
        /\ Len(slot[r].chunks) = 3 /\ Len(slot[r].metadata) = 1
        /\ Len(points) = 3
        /\ points[1].payload = [text |-> slot[r].chunks[1], source |-> "doc", user_id |-> "u1"]
        /\ points[3].payload = [text |-> slot[r].chunks[3]]

\* C21: ingestion then retrieval round-trips. After run t has ingested a
\* document with status "success", a retrieval p returns, unchanged, the text
\* of every point among the five nearest neighbours of its query, and while
\* the index holds at most five points it returns the text of every chunk of
\* the ingested document, at least one text when the document has chunks.
C21_RoundTrip ==
    \A t \in Slots : \A p \in Slots :
        (Ingested(t) /\ Searched(p) /\ slot[p].err = "") =>
            LET hits == Search(points, slot[p].qvec, TopK)
                texts == slot[t].chunks
            IN  /\ \A i \in 1..Len(hits) : hits[i].payload.text \in Range(slot[p].context)
                /\ Len(points) <= TopK =>
                      /\ \A i \in 1..Len(texts) : texts[i] \in Range(slot[p].context)
                      /\ texts # <<>> => Len(slot[p].context) >= 1

\* the round trip when the embedding service answers one vector per chunk:
\* both chunks of the ingested document are among the retrieved texts
C21_Witness ==
    \E t \in Slots : \E p \in Slots :
        /\ Ingested(t) /\ Searched(p) /\ slot[p].err = ""
        /\ Len(slot[t].chunks) = 2
        /\ Len(points) = 2
        /\ \A i \in 1..2 : slot[t].chunks[i] \in Range(slot[p].context)

\* C22: a train run executes its stages in the order read bytes, extract
\* text, persist raw document, chunk, attach metadata, store chunks (embed,
\* upsert): the metadata exists only once the chunks exist, one entry per
\* chunk, points are inserted only by the upsert, and every inserted point
\* has the payload {text: its chunk, source: user_id "_" original filename,
\* user_id: the uploading user}, the same source and user_id for all chunks.
C22_TrainOrder ==
    \A r \in Slots :
        slot[r].kind = "train" =>
            LET src == <<slot[r].user_id, "_", slot[r].file.name>> IN
            /\ IsPrefix(Stages(slot[r].trace),
                        <<"read", "extract", "savedoc", "chunk", "embed", "upsert",
                          "info", "respond">>)
            /\ slot[r].chunks # <<>> =>
                  /\ "savedoc" \in Range(slot[r].trace)
                  /\ slot[r].saved # <<>>
            /\ slot[r].metadata # <<>> =>
                  /\ "chunk" \in Range(slot[r].trace)
                  /\ "embed" \in Range(slot[r].trace) \/ slot[r].pc = "embed"
            /\ Len(slot[r].metadata) = Len(slot[r].chunks)
            /\ slot[r].inserted # <<>> => "upsert" \in Range(slot[r].trace)
            /\ Len(slot[r].inserted) <= Len(slot[r].chunks)
            /\ \A i \in 1..Len(slot[r].inserted) :
                  slot[r].inserted[i].payload =
                      [text |-> slot[r].chunks[i], source |-> src,
                       user_id |-> slot[r].user_id]

\* user u2 has ingested a two-chunk document and both points were inserted
C22_Witness ==
    \E r \in Slots :
        /\ Ingested(r)
        /\ slot[r].user_id = "u2"
        /\ Len(slot[r].inserted) = 2
        /\ slot[r].inserted[2].payload.source = <<"u2", "_", <<"a", "txt">>>>

\* the embedding step of run r has returned
Embedded(r) ==
    /\ slot[r].kind = "train"
    /\ "embed" \in Range(slot[r].trace)
    /\ ~(slot[r].err # "" /\ Last(slot[r].trace) = "embed")

\* C23: store_chunks embeds all texts of a call in one batched request to
\* the embedding service: one request for a non-empty list, none for an
\* empty list, never one per chunk; and it inserts all resulting points in
\* one upsert: the index receives the points of the call all at once, by the
\* only write the call makes.
C23_OneBatch ==
    \A r \in Slots :
        slot[r].kind = "train" =>
            /\ slot[r].calls["embed"] <= 1
            /\ slot[r].calls["vwrite"] <= 1
            /\ Embedded(r) =>
                  slot[r].calls["embed"] = (IF slot[r].chunks = <<>> THEN 0 ELSE 1)
            /\ slot[r].err = "Embedding failed" => slot[r].calls["embed"] = 1
            /\ slot[r].inserted \in {<<>>, slot[r].newpoints}
            /\ points = slot[r].inserted
            /\ slot[r].pc \in {"info", "respond"} =>
                  /\ slot[r].calls["vwrite"] = 1
                  /\ slot[r].inserted = slot[r].newpoints

\* three texts were embedded by one request and their three points were
\* inserted by one upsert
C23_Witness ==
    \E r \in Slots :
        /\ IsTrain(r, "info")
        /\ Len(slot[r].chunks) = 3
        /\ slot[r].calls["embed"] = 1
        /\ slot[r].calls["vwrite"] = 1
        /\ Len(points) = 3

\* C24: every pipeline run, once started, eventually completes with a result
\* or fails: no predict or train run stays forever in an intermediate stage.
C24_RunsEnd == \A r \in Slots : MidRun(r) ~> (slot[r].pc = "done")

\* a query run waits for the answer of the embedding service
C24_Witness ==
    \E r \in Slots : IsPredict(r, "retrieve") /\ slot[r].calls["embed"] = 0

\* the query runs that complete their Persist stage in the step at hand
Persisting == { r \in Slots : IsPredict(r, "insert") /\ slot'[r].pc = "respond" }

\* C25: under any sequence and interleaving of train and predict requests
\* the stores are append-only. Every step leaves the chat turns, the document
\* records and the vector points it found where they were and as they were
\* (a write only appends, point ids are never reused), and the number of
\* chat turns of each session grows by exactly the number of query runs on
\* that session that complete their Persist stage in the step: counted from
\* the empty store, a session holds one turn per completed Persist stage.
C25_AppendOnly ==
    /\ [](DistinctIds)
    /\ [][/\ IsPrefix(chats, chats')
          /\ IsPrefix(docs, docs')
          /\ IsPrefix(points, points')
          /\ \A sid \in Sessions :
                Cardinality(FindSession(chats', sid)) =
                    Cardinality(FindSession(chats, sid)) +
                    Cardinality({ r \in Persisting : slot[r].session_id = sid })]_vars

\* two query runs on one session have persisted their turns next to an
\* ingested document, and both turns are in the store
C25_Witness ==
    /\ Len(chats) = 2
    /\ chats[1].session_id = chats[2].session_id
    /\ Len(docs) = 1
    /\ Len(points) = 2
    /\ \E r \in Slots : IsPredict(r, "respond") /\ slot[r].written = <<chats[2]>>

\* C26: if the batch embedding call fails during store_chunks, the error
\* propagates to the caller (the train result carries its message) and the
\* vector index is unchanged: the failing step leaves the points as they
\* were, the run has built and inserted no point, and the upsert was never
\* reached.
C26_EmbedFailure ==
    /\ [](\A r \in Slots :
            (slot[r].kind = "train" /\ slot[r].err = "Embedding failed") =>
                /\ slot[r].pc = "done"
                /\ slot[r].body.status = "failed"
                /\ slot[r].body.message = "Embedding failed"
                /\ Last(slot[r].trace) = "embed"
                /\ slot[r].calls["embed"] = 1
                /\ slot[r].newpoints = <<>>
                /\ slot[r].inserted = <<>>)
    /\ [][\A r \in Slots :
            (IsTrain(r, "embed") /\ slot'[r].err = "Embedding failed") =>
                points' = points]_vars

\* the embedding of a second document has failed: the index still holds the
\* two points of the first document and the second document's record exists
C26_Witness ==
    \E r \in Slots :
        /\ slot[r].kind = "train" /\ slot[r].err = "Embedding failed"
        /\ Len(slot[r].chunks) = 2
        /\ points = IngestedPoints
        /\ Len(docs) = 2

\* run r is a train run answered with a result of status "failed"
FailedResult(r) ==
    /\ slot[r].kind = "train" /\ slot[r].pc = "done" /\ slot[r].status = 200
    /\ slot[r].body.status = "failed"

Unreadable(r) ==
    /\ slot[r].file.name[2] \notin {"txt", "md", "json", "csv"}
    /\ slot[r].file.content = "bad"

\* C28: a train run whose text extraction fails returns a result with status
\* "failed" and writes nothing. Extraction fails exactly for the unreadable
\* uploads; the run then ends at the extraction step, has written no
\* document record and no vector point, has called neither the document
\* store nor the embedding service, and the failing step leaves both stores
\* as they were.
C28_ExtractFailure ==
    /\ [](\A r \in Slots :
            (slot[r].kind = "train" /\ "extract" \in Range(slot[r].trace)) =>
                /\ Unreadable(r) <=> (slot[r].pc = "done" /\ Last(slot[r].trace) = "extract")
                /\ Unreadable(r) =>
                      /\ FailedResult(r)
                      /\ slot[r].saved = <<>>
                      /\ slot[r].inserted = <<>>
                      /\ slot[r].calls["dwrite"] = 0
                      /\ slot[r].calls["embed"] = 0)
    /\ [][\A r \in Slots :
            (IsTrain(r, "extract") /\ slot'[r].pc = "done") =>
                /\ docs' = docs
                /\ points' = points]_vars

\* a PDF that cannot be parsed was uploaded over stores holding one ingested
\* document: the run has failed and the stores hold what they held
C28_Witness ==
    \E r \in Slots :
        /\ FailedResult(r) /\ Last(slot[r].trace) = "extract"
        /\ slot[r].file.name[2] = "pdf"
        /\ docs = <<IngestedDoc>>
        /\ points = IngestedPoints

\* run r has read the chat history of its session
HistoryRead(r) ==
    /\ slot[r].kind = "predict"
    /\ "history" \in Range(slot[r].trace)
    /\ ~(slot[r].err # "" /\ Last(slot[r].trace) = "history")

\* C29: the data a query sees does not depend on its user_id. Two query runs
\* with the same query and session_id and different user_ids that have both
\* read the stores as user u1 left them (no turn was written since) have
\* retrieved the same chunks and read the same chat history: the chunks u1
\* ingested and the turn u1 persisted under the session, also for user u2.
C29_UserBlind ==
    \A a \in Slots : \A b \in Slots :
        (/\ HistoryRead(a) /\ HistoryRead(b)
         /\ slot[a].user_id # slot[b].user_id
         /\ slot[a].query = slot[b].query
         /\ slot[a].session_id = slot[b].session_id
         /\ Len(chats) = 1) =>
            /\ slot[a].context = slot[b].context
            /\ slot[a].history = slot[b].history
            /\ slot[a].context = ResultTexts(Search(points, slot[a].qvec, TopK))
            /\ \A i \in 1..Len(points) : points[i].payload.text \in Range(slot[b].context)
            /\ slot[b].history = FormatChat(chats[1])

\* a run of u1 and a run of u2 with the same query have both read the stores
\* that hold only data of u1
C29_Witness ==
    \E a \in Slots : \E b \in Slots :
        /\ HistoryRead(a) /\ HistoryRead(b)
        /\ slot[a].user_id = "u1" /\ slot[b].user_id = "u2"
        /\ slot[a].query = slot[b].query
        /\ Len(chats) = 1 /\ chats[1].user_id = "u1"
        /\ Len(slot[b].context) = 2
        /\ \A i \in 1..Len(points) : points[i].payload.user_id = "u1"
        /\ Len(slot[b].history) = 2

\* C30: the vector collection is created only once. A RetrieverService
\* constructed while the collection exists goes on without a create call and
\* leaves the points as they are; no step removes the collection or a point
\* of it; and when two requests construct their RetrieverService
\* concurrently while the collection is absent, the collection is created at
\* most once: the create call that comes second raises and changes nothing.
C30_CreatedOnce ==
    /\ [](/\ collCreated <= 1
          /\ collExists <=> collCreated = 1
          /\ ~collExists => points = <<>>)
    /\ [][/\ collExists => collExists' /\ collCreated' = collCreated
          /\ IsPrefix(points, points')
          /\ \A r \in Slots :
                /\ (slot[r].pc = "check" /\ collExists /\ slot'[r].pc # "check") =>
                      /\ slot'[r].pc # "create"
                      /\ points' = points
                /\ (slot[r].pc = "create" /\ collExists /\ slot'[r].pc # "create") =>
                      /\ slot'[r].pc = "done" /\ slot'[r].status = 500
                      /\ points' = points]_vars

\* two requests found the collection absent; the train request created it
\* and stored its points, the create call of the other request then failed,
\* and the points are still there
C30_Witness ==
    \E a \in Slots : \E b \in Slots :
        /\ slot[a].err = "collection exists"
        /\ slot[b].kind = "train" /\ slot[b].inserted # <<>>
        /\ "create" \in Range(slot[b].trace)
        /\ collCreated = 1
        /\ points = slot[b].inserted

====
